---- MODULE Spec2Model ----
(***************************************************************************)
(* ZodSubscriber (packages/internal-platform/src/messages/zodSubscriber.ts) *)
(* as a state machine: the subscription lifecycle (initialize / close) and  *)
(* the listener (#onMessage, #handleMessage, #getRawProperties) that        *)
(* validates, dispatches and acknowledges each delivered message.           *)
(*                                                                          *)
(* JavaScript objects are sets of <<key, value>> pairs.  Every await of a   *)
(* promise that an external party settles (the handler, Consumer            *)
(* .acknowledge, Client.subscribe, Consumer.close) is a point where other   *)
(* callbacks interleave, so the code before and after it are separate       *)
(* actions.  Consumer.negativeAcknowledge and the logger are synchronous    *)
(* void calls that are not awaited.                                         *)
(***************************************************************************)
EXTENDS Integers, Sequences, FiniteSets, Bags, TLC

\* Bounds of the model.
MaxDeliveries == 2
MaxConsumers == 2
MaxCalls == 2
MaxCloseCalls == 2

VARIABLES schema, handlers, subscriber, consumers, calls, last, closedOnce,
          initFailed, deliveries, broker, norm

vars == <<schema, handlers, subscriber, consumers, calls, last, closedOnce,
          initFailed, deliveries, broker, norm>>

\* The value of an unset #subscriber field.
undefined == 0

----------------------------------------------------------------------------
\* JavaScript values

\* What reading a missing key gives.
Absent == "<undefined>"

\* A property value that is not a string: the pair ["k", "v"] held as an
\* element of a list-of-pairs array.
PairValue == "<array k,v>"

IsString(x) == x # Absent /\ x # PairValue

Keys(obj) == {p[1] : p \in obj}

Get(obj, key) ==
    IF key \in Keys(obj) THEN (CHOOSE p \in obj : p[1] = key)[2] ELSE Absent

\* Names every object inherits from Object.prototype.
ObjectPrototypeKeys == {"constructor"}

\* The key JavaScript gives the element at position i of an array.
IndexKeys == <<"0", "1", "2", "3">>

----------------------------------------------------------------------------
\* The constructor's options: the schema catalog and the handler registry.

NoShape == [required |-> {}, optional |-> {}]

\* "a": every property optional; "b": property k required; "c": a catalog
\* entry whose handler is missing from the registry.
SubscriberSchema ==
    [t \in {"a", "b", "c"} |->
        [data |-> [required |-> {"id"}, optional |-> {}],
         properties |-> IF t = "b" THEN [required |-> {"k"}, optional |-> {}]
                                   ELSE [required |-> {}, optional |-> {"k"}]]]

Handlers == [t \in {"a", "b"} |-> t]

----------------------------------------------------------------------------
\* The messages the broker delivers.

\* msg.getData().toString(): text that is not JSON, or a JSON object.
Bodies ==
    {[parses |-> FALSE, id |-> Absent, type |-> Absent, data |-> {}]}
    \cup {[parses |-> TRUE, id |-> "m1", type |-> Absent, data |-> {}]}
    \cup [parses : {TRUE}, id : {"m1"}, type : {"a", "b", "c"},
          data : {{}, {<<"id", "u1">>}}]
    \cup [parses : {TRUE}, id : {"m1"}, type : {"u", "constructor"},
          data : {{<<"id", "u1">>}}]

\* msg.getProperties(): a plain object, or an array carrying indexed
\* elements and/or named keys.
PropertyReps ==
    {[isArray |-> FALSE, elems |-> <<>>, named |-> {}],
     [isArray |-> FALSE, elems |-> <<>>, named |-> {<<"k", "v">>}],
     [isArray |-> TRUE, elems |-> <<>>, named |-> {<<"k", "v">>}],
     [isArray |-> TRUE, elems |-> <<PairValue>>, named |-> {}]}

Messages == [body : Bodies, props : PropertyReps]

----------------------------------------------------------------------------
\* Decoding and validation

NoError == [name |-> "none", issues |-> {}]

JSONParse(body) ==
    IF body.parses
    THEN [ok |-> TRUE, error |-> NoError]
    ELSE [ok |-> FALSE, error |-> [name |-> "SyntaxError", issues |-> {}]]

\* The envelope shape {id: string, type: string, data: any}.
MessageDataSchemaParse(body) ==
    LET issues == {f \in {"id", "type"} : ~IsString(body[f])}
    IN IF issues = {}
       THEN [ok |-> TRUE, error |-> NoError]
       ELSE [ok |-> FALSE, error |-> [name |-> "ZodError", issues |-> issues]]

\* Lines 94-96: JSON.parse, then the envelope validation.
Decode(msg) ==
    IF ~JSONParse(msg.body).ok THEN JSONParse(msg.body)
    ELSE MessageDataSchemaParse(msg.body)

\* A validator that takes every declared key as required.
ZodObjectParse_allRequired(shape, obj) ==
    LET known == shape.required \cup shape.optional
        issues == {k \in known : ~IsString(Get(obj, k))}
    IN [ok |-> issues = {},
        value |-> {p \in obj : p[1] \in known},
        error |-> IF issues = {} THEN NoError
                  ELSE [name |-> "ZodError", issues |-> issues]]

\* A zod object validator: required keys must hold strings, optional keys
\* hold strings when present, unknown keys are stripped from the result.
ZodObjectParse(shape, obj) ==
    LET known == shape.required \cup shape.optional
        issues == {k \in known :
                      \/ k \in shape.required /\ Get(obj, k) = Absent
                      \/ Get(obj, k) # Absent /\ ~IsString(Get(obj, k))}
    IN [ok |-> issues = {},
        value |-> {p \in obj : p[1] \in known},
        error |-> IF issues = {} THEN NoError
                  ELSE [name |-> "ZodError", issues |-> issues]]

\* #getRawProperties: an array is rebuilt key by key from Object.keys (its
\* indices, then its named keys); anything else is returned as it is.
getRawProperties(msg) ==
    LET properties == msg.props
    IN IF properties.isArray
       THEN {<<IndexKeys[i], properties.elems[i]>> :
                 i \in DOMAIN properties.elems} \cup properties.named
       ELSE properties.named

\* subscriberSchema[typeName]: an own entry, a member inherited from
\* Object.prototype (truthy, but with no data or properties validator), or
\* undefined.
SchemaLookup(s, typeName) ==
    IF typeName \in DOMAIN s THEN [found |-> "own", entry |-> s[typeName]]
    ELSE IF typeName \in ObjectPrototypeKeys
         THEN [found |-> "inherited",
               entry |-> [data |-> NoShape, properties |-> NoShape]]
         ELSE [found |-> "none",
               entry |-> [data |-> NoShape, properties |-> NoShape]]

NoArgs == [id |-> Absent, data |-> {}, properties |-> {}]

InfoLog == [level |-> "info", branch |-> "handling", issues |-> {}]

\* #handleMessage with the properties validated before the data.
handleMessage_propertiesFirst(s, h, rawMessage, rawProperties) ==
    LET look == SchemaLookup(s, rawMessage.type)
        message == ZodObjectParse(look.entry.data, rawMessage.data)
        properties == ZodObjectParse(look.entry.properties, rawProperties)
        Throw(e, log) == [threw |-> TRUE, error |-> e, log |-> log,
                          args |-> NoArgs]
    IN IF look.found = "none"
       THEN Throw([name |-> "Error", issues |-> {}], <<>>)
       ELSE IF look.found = "inherited"
       THEN Throw([name |-> "TypeError", issues |-> {}], <<InfoLog>>)
       ELSE IF ~properties.ok THEN Throw(properties.error, <<InfoLog>>)
       ELSE IF ~message.ok THEN Throw(message.error, <<InfoLog>>)
       ELSE IF rawMessage.type \notin DOMAIN h
       THEN Throw([name |-> "TypeError", issues |-> {}], <<InfoLog>>)
       ELSE [threw |-> FALSE, error |-> NoError, log |-> <<InfoLog>>,
             args |-> [id |-> rawMessage.id, data |-> message.value,
                       properties |-> properties.value]]

\* #handleMessage up to its await: either it throws (the returned promise
\* rejects) or the handler has been invoked and its promise is pending.
handleMessage(s, h, rawMessage, rawProperties) ==
    LET look == SchemaLookup(s, rawMessage.type)
        message == ZodObjectParse(look.entry.data, rawMessage.data)
        properties == ZodObjectParse(look.entry.properties, rawProperties)
        Throw(e, log) == [threw |-> TRUE, error |-> e, log |-> log,
                          args |-> NoArgs]
    IN IF look.found = "none"
       THEN Throw([name |-> "Error", issues |-> {}], <<>>)
       ELSE IF look.found = "inherited"
       THEN Throw([name |-> "TypeError", issues |-> {}], <<InfoLog>>)
       ELSE IF ~message.ok THEN Throw(message.error, <<InfoLog>>)
       ELSE IF ~properties.ok THEN Throw(properties.error, <<InfoLog>>)
       ELSE IF rawMessage.type \notin DOMAIN h
       THEN Throw([name |-> "TypeError", issues |-> {}], <<InfoLog>>)
       ELSE [threw |-> FALSE, error |-> NoError, log |-> <<InfoLog>>,
             args |-> [id |-> rawMessage.id, data |-> message.value,
                       properties |-> properties.value]]

\* catch with negativeAcknowledge moved inside the ZodError branch.
catch_nackOnlyInvalid(dl, e) ==
    [dl EXCEPT !.error = e,
               !.log = Append(@, IF e.name = "ZodError"
                                 THEN [level |-> "error", branch |-> "invalid",
                                       issues |-> e.issues]
                                 ELSE [level |-> "error", branch |-> "generic",
                                       issues |-> {}]),
               !.nacks = IF e.name = "ZodError" THEN @ + 1 ELSE @,
               !.pc = "resolved"]

\* catch without the instanceof ZodError test: every error is logged on the
\* generic branch.
catch_alwaysGeneric(dl, e) ==
    [dl EXCEPT !.error = e,
               !.log = Append(@, [level |-> "error", branch |-> "generic",
                                  issues |-> {}]),
               !.nacks = @ + 1,
               !.pc = "resolved"]

\* catch that rethrows the error after the negativeAcknowledge.
catch_rethrows(dl, e) ==
    [dl EXCEPT !.error = e,
               !.log = Append(@, IF e.name = "ZodError"
                                 THEN [level |-> "error", branch |-> "invalid",
                                       issues |-> e.issues]
                                 ELSE [level |-> "error", branch |-> "generic",
                                       issues |-> {}]),
               !.nacks = @ + 1,
               !.pc = "rejected"]

\* The catch block of #onMessage (lines 106-119): one error-level log, on
\* the validation branch for a ZodError, then negativeAcknowledge.
catch(dl, e) ==
    [dl EXCEPT !.error = e,
               !.log = Append(@, IF e.name = "ZodError"
                                 THEN [level |-> "error", branch |-> "invalid",
                                       issues |-> e.issues]
                                 ELSE [level |-> "error", branch |-> "generic",
                                       issues |-> {}]),
               !.nacks = @ + 1,
               !.pc = "resolved"]

\* Whether the initialize() that opened consumer c is still waiting to store
\* it when the listener is entered with handle c.  The listener does not
\* read it.
Entered(c) ==
    \E call \in BagToSet(calls) : call.op = "initialize" /\ call.consumer = c

\* A delivery whose listener callback has just been entered.
NewDelivery(msg, c) ==
    [msg |-> msg, consumer |-> c, pc |-> "start", wasHandled |-> "none",
     ackSettled |-> "none", error |-> NoError, acks |-> 0, nacks |-> 0,
     handlerCalls |-> 0, args |-> NoArgs, log |-> <<>>,
     entered |-> Entered(c)]

\* onMessageStart with the decode moved inside the try block.
onMessageStart_decodeInTry(msg, c, s, h) ==
    LET dl == NewDelivery(msg, c)
        hm == handleMessage(s, h, msg.body, getRawProperties(msg))
    IN IF ~Decode(msg).ok
       THEN catch(dl, Decode(msg).error)
       ELSE IF hm.threw
       THEN catch([dl EXCEPT !.log = hm.log], hm.error)
       ELSE [dl EXCEPT !.pc = "awaitHandler", !.wasHandled = "pending",
                       !.handlerCalls = @ + 1, !.args = hm.args,
                       !.log = hm.log]

\* #onMessage from its entry to its first suspension: a decode failure is
\* outside the try block and rejects the callback's promise; a failure of
\* #handleMessage goes to the catch block; otherwise the callback waits for
\* the handler.
onMessageStart(msg, c, s, h) ==
    LET dl == NewDelivery(msg, c)
        hm == handleMessage(s, h, msg.body, getRawProperties(msg))
    IN IF ~Decode(msg).ok
       THEN [dl EXCEPT !.pc = "rejected", !.error = Decode(msg).error]
       ELSE IF hm.threw
       THEN catch([dl EXCEPT !.log = hm.log], hm.error)
       ELSE [dl EXCEPT !.pc = "awaitHandler", !.wasHandled = "pending",
                       !.handlerCalls = @ + 1, !.args = hm.args,
                       !.log = hm.log]

\* Whether the broker still holds consumer c open.
IsOpen(c) == c \in DOMAIN consumers /\ consumers[c].open

BrokerCall(op, dl) ==
    [op |-> op, consumer |-> dl.consumer, msg |-> dl.msg,
     open |-> IsOpen(dl.consumer)]

\* issue with the message kept in a field of the subscriber that every
\* callback overwrites on entry, instead of the callback's own parameter.
issue_sharedMessage(b, old, new) ==
    LET cur == IF old.pc = "start" THEN new
               ELSE [new EXCEPT !.msg = deliveries[Len(deliveries)].msg]
        acked == IF new.acks > old.acks
                 THEN b (+) SetToBag({BrokerCall("acknowledge", cur)}) ELSE b
    IN IF new.nacks > old.nacks
       THEN acked (+) SetToBag({BrokerCall("negativeAcknowledge", cur)})
       ELSE acked

\* issue with the calls made on the stored consumer instead of the handle
\* the callback was given.
issue_onStored(b, old, new) ==
    LET cur == [new EXCEPT !.consumer = subscriber]
        acked == IF new.acks > old.acks
                 THEN b (+) SetToBag({BrokerCall("acknowledge", cur)}) ELSE b
    IN IF new.nacks > old.nacks
       THEN acked (+) SetToBag({BrokerCall("negativeAcknowledge", cur)})
       ELSE acked

\* The calls a step of the callback makes on the broker (lines 104 and
\* 118): consumer.acknowledge(msg) and consumer.negativeAcknowledge(msg), on
\* the callback's own consumer and msg parameters.
issue(b, old, new) ==
    LET acked == IF new.acks > old.acks
                 THEN b (+) SetToBag({BrokerCall("acknowledge", new)}) ELSE b
    IN IF new.nacks > old.nacks
       THEN acked (+) SetToBag({BrokerCall("negativeAcknowledge", new)})
       ELSE acked

\* The broker invokes the listener with a message and a consumer handle.
onMessage(msg, c) ==
    /\ Len(deliveries) < MaxDeliveries
    /\ c \in DOMAIN consumers
    /\ deliveries' = Append(deliveries, onMessageStart(msg, c, schema, handlers))
    /\ broker' = issue(broker, NewDelivery(msg, c),
                       onMessageStart(msg, c, schema, handlers))
    /\ UNCHANGED <<schema, handlers, subscriber, consumers, calls, last,
                   closedOnce, initFailed, norm>>

\* afterHandler that treats a false result as a failure.
afterHandler_falseNacks(dl, outcome) ==
    IF outcome = "true"
    THEN [dl EXCEPT !.wasHandled = "true", !.acks = @ + 1, !.pc = "awaitAck"]
    ELSE IF outcome = "false"
    THEN catch([dl EXCEPT !.wasHandled = "false"],
               [name |-> "Error", issues |-> {}])
    ELSE catch([dl EXCEPT !.wasHandled = "threw"],
               [name |-> "HandlerError", issues |-> {}])

\* afterHandler that acknowledges whenever the handler has settled.
afterHandler_ackOnSettle(dl, outcome) ==
    IF outcome = "false"
    THEN [dl EXCEPT !.wasHandled = "false", !.pc = "resolved"]
    ELSE [dl EXCEPT !.wasHandled = IF outcome = "true" THEN "true" ELSE "threw",
                    !.acks = @ + 1, !.pc = "awaitAck"]

\* The continuation of #onMessage once the handler's promise has settled:
\* true -> consumer.acknowledge is called and awaited; false -> nothing;
\* rejection -> the catch block.
afterHandler(dl, outcome) ==
    IF outcome = "true"
    THEN [dl EXCEPT !.wasHandled = "true", !.acks = @ + 1, !.pc = "awaitAck"]
    ELSE IF outcome = "false"
    THEN [dl EXCEPT !.wasHandled = "false", !.pc = "resolved"]
    ELSE catch([dl EXCEPT !.wasHandled = "threw"],
               [name |-> "HandlerError", issues |-> {}])

handlerSettles(d, outcome) ==
    /\ d \in DOMAIN deliveries
    /\ deliveries[d].pc = "awaitHandler"
    /\ deliveries' = [deliveries EXCEPT ![d] = afterHandler(@, outcome)]
    /\ broker' = issue(broker, deliveries[d],
                       afterHandler(deliveries[d], outcome))
    /\ UNCHANGED <<schema, handlers, subscriber, consumers, calls, last,
                   closedOnce, initFailed, norm>>

\* The continuation of #onMessage once consumer.acknowledge has settled: it
\* is awaited inside the try block, so its rejection goes to the catch block.
afterAcknowledge(dl, ok) ==
    IF ok
    THEN [dl EXCEPT !.ackSettled = "resolved", !.pc = "resolved"]
    ELSE catch([dl EXCEPT !.ackSettled = "rejected"],
               [name |-> "AcknowledgeError", issues |-> {}])

acknowledgeSettles(d, ok) ==
    /\ d \in DOMAIN deliveries
    /\ deliveries[d].pc = "awaitAck"
    /\ deliveries' = [deliveries EXCEPT ![d] = afterAcknowledge(@, ok)]
    /\ broker' = issue(broker, deliveries[d],
                       afterAcknowledge(deliveries[d], ok))
    /\ UNCHANGED <<schema, handlers, subscriber, consumers, calls, last,
                   closedOnce, initFailed, norm>>

----------------------------------------------------------------------------
\* The subscription lifecycle.  calls is the bag of initialize() and close()
\* calls suspended at their await; last is the call that completed most
\* recently, with what it returned.

NoCall == [op |-> "none", end |-> "none", ret |-> "none",
           consumer |-> undefined, from |-> "none", retry |-> FALSE]

Suspended == BagToSet(calls)

\* How a suspended call ends.
Completed(call, end, ret) ==
    [op |-> call.op, end |-> end, ret |-> ret, consumer |-> call.consumer,
     from |-> call.from, retry |-> call.retry]

\* The lifecycle state of section 4.4: Subscribed while a consumer is stored,
\* Closed once a close() has cleared the reference, Uninitialized before.
SubscriberState ==
    IF subscriber # undefined THEN "Subscribed"
    ELSE IF closedOnce THEN "Closed" ELSE "Uninitialized"

\* initialize() that rejects a call made while a consumer is stored.
initialize_rejectsWhenSubscribed ==
    /\ BagCardinality(calls) < MaxCalls
    /\ IF subscriber # undefined
       THEN /\ last' = [op |-> "initialize", end |-> "threw", ret |-> "none",
                        consumer |-> undefined, from |-> SubscriberState,
                        retry |-> initFailed]
            /\ UNCHANGED calls
       ELSE /\ calls' = calls (+) SetToBag({[op |-> "initialize",
                                             pc |-> "subscribing",
                                             consumer |-> undefined,
                                             from |-> SubscriberState,
                                             retry |-> initFailed]})
            /\ UNCHANGED last
    /\ UNCHANGED <<schema, handlers, subscriber, consumers, closedOnce,
                   initFailed, deliveries, broker, norm>>

\* initialize() up to its await: client.subscribe has been called.
initialize ==
    /\ BagCardinality(calls) < MaxCalls
    /\ calls' = calls (+) SetToBag({[op |-> "initialize", pc |-> "subscribing",
                                     consumer |-> undefined,
                                     from |-> SubscriberState,
                                     retry |-> initFailed]})
    /\ UNCHANGED <<schema, handlers, subscriber, consumers, last, closedOnce,
                   initFailed, deliveries, broker,
                   norm>>

\* The broker opens the consumer: the promise of client.subscribe resolves.
subscribeResolves(call) ==
    /\ call.pc = "subscribing"
    /\ Len(consumers) < MaxConsumers
    /\ consumers' = Append(consumers, [open |-> TRUE, closeCalls |-> 0])
    /\ calls' = (calls (-) SetToBag({call}))
                (+) SetToBag({[call EXCEPT !.pc = "subscribed",
                                           !.consumer = Len(consumers) + 1]})
    /\ UNCHANGED <<schema, handlers, subscriber, last, closedOnce, initFailed,
                   deliveries, broker,
                   norm>>

\* initialize() after the await (lines 59-64): store the consumer, return
\* true.
initializeResumes(call) ==
    /\ call.pc = "subscribed"
    /\ subscriber' = call.consumer
    /\ last' = Completed(call, "returned", "true")
    /\ calls' = calls (-) SetToBag({call})
    /\ UNCHANGED <<schema, handlers, consumers, closedOnce, initFailed,
                   deliveries, broker,
                   norm>>

\* initialize() without its try/catch: the failure of client.subscribe
\* leaves initialize().
subscribeRejects_propagates(call) ==
    /\ call.pc = "subscribing"
    /\ last' = Completed(call, "threw", "none")
    /\ calls' = calls (-) SetToBag({call})
    /\ initFailed' = TRUE
    /\ UNCHANGED <<schema, handlers, subscriber, consumers, closedOnce,
                   deliveries, broker,
                   norm>>

\* client.subscribe throws or rejects: the catch block of initialize()
\* (lines 65-69) logs the error and returns false.
subscribeRejects(call) ==
    /\ call.pc = "subscribing"
    /\ last' = Completed(call, "returned", "false")
    /\ calls' = calls (-) SetToBag({call})
    /\ initFailed' = TRUE
    /\ UNCHANGED <<schema, handlers, subscriber, consumers, closedOnce,
                   deliveries, broker,
                   norm>>

\* close() up to its await: without a stored consumer it returns at once,
\* otherwise Consumer.close() has been called on the stored consumer.
close ==
    /\ BagCardinality(calls) < MaxCalls
    /\ IF subscriber = undefined
       THEN /\ last' = [op |-> "close", end |-> "returned", ret |-> "void",
                        consumer |-> undefined, from |-> SubscriberState,
                        retry |-> FALSE]
            /\ UNCHANGED <<consumers, calls>>
       ELSE /\ consumers[subscriber].closeCalls < MaxCloseCalls
            /\ consumers' = [consumers EXCEPT ![subscriber].closeCalls = @ + 1]
            /\ calls' = calls (+) SetToBag({[op |-> "close", pc |-> "closing",
                                             consumer |-> subscriber,
                                             from |-> SubscriberState,
                                             retry |-> FALSE]})
            /\ UNCHANGED last
    /\ UNCHANGED <<schema, handlers, subscriber, closedOnce, initFailed,
                   deliveries, broker,
                   norm>>

\* close() of a subscriber that closes every consumer it has opened.
closeResolves_closesAll(call) ==
    /\ call.pc = "closing"
    /\ consumers' = [c \in DOMAIN consumers |->
                         [consumers[c] EXCEPT !.open = FALSE]]
    /\ subscriber' = undefined
    /\ closedOnce' = TRUE
    /\ last' = Completed(call, "returned", "void")
    /\ calls' = calls (-) SetToBag({call})
    /\ UNCHANGED <<schema, handlers, initFailed, deliveries, broker, norm>>

\* Consumer.close() resolves; close() clears the reference (line 75).
closeResolves(call) ==
    /\ call.pc = "closing"
    /\ consumers' = [consumers EXCEPT ![call.consumer].open = FALSE]
    /\ subscriber' = undefined
    /\ closedOnce' = TRUE
    /\ last' = Completed(call, "returned", "void")
    /\ calls' = calls (-) SetToBag({call})
    /\ UNCHANGED <<schema, handlers, initFailed, deliveries, broker,
                   norm>>

\* close() with the reference cleared in a finally block.
closeRejects_clears(call) ==
    /\ call.pc = "closing"
    /\ subscriber' = undefined
    /\ closedOnce' = TRUE
    /\ last' = Completed(call, "threw", "none")
    /\ calls' = calls (-) SetToBag({call})
    /\ UNCHANGED <<schema, handlers, consumers, initFailed, deliveries,
                   broker, norm>>

\* Consumer.close() rejects: the exception leaves close() before line 75.
closeRejects(call) ==
    /\ call.pc = "closing"
    /\ last' = Completed(call, "threw", "none")
    /\ calls' = calls (-) SetToBag({call})
    /\ UNCHANGED <<schema, handlers, subscriber, consumers, closedOnce,
                   initFailed, deliveries, broker,
                   norm>>

----------------------------------------------------------------------------
\* #getRawProperties on its own: one set of key/value pairs, handed over in
\* each of the shapes msg.getProperties() can have.

MaxPairs == 2

PropertyKeys == {"k", "j", "i"}

PropertyValues == {"v", "w", "x"}

\* The lists of at most MaxPairs pairs with distinct keys.
PairLists ==
    {l \in UNION {[1..n -> PropertyKeys \X PropertyValues] : n \in 0..MaxPairs} :
        \A a, b \in DOMAIN l : a # b => l[a][1] # l[b][1]}

\* The mapping a list of pairs stands for.
ToMap(pairs) == {pairs[n] : n \in DOMAIN pairs}

\* "map": a plain object; "named": an array object carrying the pairs as
\* named keys; "list": an array whose elements are the [key, value] pairs.
AsProperties(form, pairs) ==
    IF form = "map"
    THEN [isArray |-> FALSE, elems |-> <<>>, named |-> ToMap(pairs)]
    ELSE IF form = "named"
    THEN [isArray |-> TRUE, elems |-> <<>>, named |-> ToMap(pairs)]
    ELSE [isArray |-> TRUE, elems |-> [n \in DOMAIN pairs |-> PairValue],
          named |-> {}]

NoNorm == [form |-> "none", pairs |-> <<>>, raw |-> {}]

normalize(form, pairs) ==
    /\ norm' = [form |-> form, pairs |-> pairs,
                raw |-> getRawProperties([props |-> AsProperties(form, pairs)])]
    /\ UNCHANGED <<schema, handlers, subscriber, consumers, calls, last,
                   closedOnce, initFailed, deliveries, broker>>

----------------------------------------------------------------------------
\* Specifications

\* The state the constructor leaves (lines 45-51).
Init ==
    /\ schema = SubscriberSchema
    /\ handlers = Handlers
    /\ subscriber = undefined
    /\ consumers = <<>>
    /\ calls = EmptyBag
    /\ last = NoCall
    /\ closedOnce = FALSE
    /\ initFailed = FALSE
    /\ deliveries = <<>>
    /\ broker = EmptyBag
    /\ norm = NoNorm

\* The state once a first initialize() has returned true.
InitSubscribed ==
    /\ schema = SubscriberSchema
    /\ handlers = Handlers
    /\ subscriber = 1
    /\ consumers = <<[open |-> TRUE, closeCalls |-> 0]>>
    /\ calls = EmptyBag
    /\ last = [op |-> "initialize", end |-> "returned", ret |-> "true",
               consumer |-> 1, from |-> "Uninitialized", retry |-> FALSE]
    /\ closedOnce = FALSE
    /\ initFailed = FALSE
    /\ deliveries = <<>>
    /\ broker = EmptyBag
    /\ norm = NoNorm

NextLifecycle ==
    \/ initialize
    \/ close
    \/ \E call \in Suspended : subscribeResolves(call)
    \/ \E call \in Suspended : initializeResumes(call)
    \/ \E call \in Suspended : subscribeRejects(call)
    \/ \E call \in Suspended : closeResolves(call)
    \/ \E call \in Suspended : closeRejects(call)

NextDispatch ==
    \/ \E msg \in Messages, c \in 1..MaxConsumers : onMessage(msg, c)
    \/ \E d \in 1..MaxDeliveries, outcome \in {"true", "false", "reject"} :
           handlerSettles(d, outcome)
    \/ \E d \in 1..MaxDeliveries, ok \in BOOLEAN : acknowledgeSettles(d, ok)

\* initialize() and close() called one after the other, each call made
\* only once the previous one has completed (section 5).
NextSequential ==
    \/ calls = EmptyBag /\ initialize
    \/ calls = EmptyBag /\ close
    \/ \E call \in Suspended : subscribeResolves(call)
    \/ \E call \in Suspended : initializeResumes(call)
    \/ \E call \in Suspended : subscribeRejects(call)
    \/ \E call \in Suspended : closeResolves(call)
    \/ \E call \in Suspended : closeRejects(call)

\* The deliveries made, and the consumers opened, in a run where the
\* listener runs beside the lifecycle calls.
MaxOverlap == 1

\* The messages delivered while lifecycle calls are in progress: one that
\* reaches its handler and one of an unknown type.
OverlapMessages ==
    {m \in Messages :
        /\ m.body.parses /\ m.body.type \in {"a", "u"}
        /\ m.body.data # {}
        /\ m.props = [isArray |-> FALSE, elems |-> <<>>, named |-> {}]}

\* Sequential lifecycle calls whose broker operations succeed, with the
\* listener running beside them: the broker may deliver on any consumer it
\* has opened, whatever the subscriber has stored.
NextOverlap ==
    \/ calls = EmptyBag /\ initialize
    \/ calls = EmptyBag /\ close
    \/ \E call \in Suspended :
           Len(consumers) < MaxOverlap /\ subscribeResolves(call)
    \/ \E call \in Suspended : initializeResumes(call)
    \/ \E call \in Suspended : closeResolves(call)
    \/ \E msg \in OverlapMessages, c \in 1..MaxConsumers :
           Len(deliveries) < MaxOverlap /\ onMessage(msg, c)
    \/ \E d \in 1..MaxOverlap, outcome \in {"true", "false", "reject"} :
           handlerSettles(d, outcome)
    \/ \E d \in 1..MaxOverlap, ok \in BOOLEAN : acknowledgeSettles(d, ok)

NextProperties ==
    \E form \in {"map", "named", "list"}, pairs \in PairLists :
        normalize(form, pairs)

Next == NextLifecycle \/ NextDispatch

\* The lifecycle calls alone.
SpecLifecycle == Init /\ [][NextLifecycle]_vars

\* The listener alone, on a subscriber that has been initialized.
SpecDispatch == InitSubscribed /\ [][NextDispatch]_vars

\* The listener beside sequential lifecycle calls.
SpecOverlap == Init /\ [][NextOverlap]_vars

\* The lifecycle calls made sequentially.
SpecSequential == Init /\ [][NextSequential]_vars

\* The property normalization alone.
SpecProperties == Init /\ [][NextProperties]_vars

Spec == Init /\ [][Next]_vars

----------------------------------------------------------------------------
\* Properties of the listener (SpecDispatch)

Delivered == {deliveries[d] : d \in DOMAIN deliveries}

DecodesOk(dl) == Decode(dl.msg).ok

InCatalog(dl) == dl.msg.body.type \in DOMAIN schema

DataValid(dl) ==
    ZodObjectParse(schema[dl.msg.body.type].data, dl.msg.body.data).ok

PropertiesValid(dl) ==
    ZodObjectParse(schema[dl.msg.body.type].properties,
                   getRawProperties(dl.msg)).ok

\* A decodable message of a catalog type with a registered handler whose
\* data and properties pass the type's validators.
ValidRegistered(dl) ==
    /\ DecodesOk(dl)
    /\ InCatalog(dl)
    /\ dl.msg.body.type \in DOMAIN handlers
    /\ DataValid(dl)
    /\ PropertiesValid(dl)

ErrorLogs(dl) == {j \in DOMAIN dl.log : dl.log[j].level = "error"}

\* C1: for every delivery, whatever its outcome and whether or not the
\* acknowledge call completes normally, the number of acknowledge calls plus
\* the number of negativeAcknowledge calls is at most one.
C1_AckNackExclusive ==
    \A dl \in Delivered : dl.acks + dl.nacks <= 1

\* C2: a valid message of a catalog type with a registered handler whose
\* handler resolved to true has exactly one acknowledge call and no
\* negativeAcknowledge call.
C2_HandledTrueAcksOnce ==
    \A dl \in Delivered :
        (ValidRegistered(dl) /\ dl.wasHandled = "true")
            => (dl.acks = 1 /\ dl.nacks = 0)

\* C3: when the handler of a valid message resolves to false, the listener
\* has issued no acknowledge and no negativeAcknowledge, has completed
\* normally, and never changes anything about that delivery afterwards.
C3_HandledFalseLeftPending ==
    [][\A d \in DOMAIN deliveries' :
          deliveries'[d].wasHandled = "false"
              => /\ ValidRegistered(deliveries'[d])
                 /\ deliveries'[d].acks = 0 /\ deliveries'[d].nacks = 0
                 /\ deliveries'[d].pc = "resolved"
                 /\ deliveries'[d].error = NoError
                 /\ (d \in DOMAIN deliveries
                         /\ deliveries[d].wasHandled = "false")
                        => deliveries'[d] = deliveries[d]]_vars

C3_Witness ==
    \E dl \in Delivered : dl.wasHandled = "false" /\ dl.pc = "resolved"

\* C4: a decodable message whose type has no entry in the schema catalog
\* gets exactly one negativeAcknowledge, no acknowledge and no handler
\* invocation.
C4_UnknownTypeNacked ==
    \A dl \in Delivered :
        (DecodesOk(dl) /\ ~InCatalog(dl))
            => (dl.nacks = 1 /\ dl.acks = 0 /\ dl.handlerCalls = 0
                /\ dl.wasHandled = "none" /\ dl.pc = "resolved")

C4_Witness ==
    /\ \E dl \in Delivered : DecodesOk(dl) /\ dl.msg.body.type = "u"
    /\ \E dl \in Delivered : DecodesOk(dl) /\ dl.msg.body.type = "constructor"

\* C5: a message of a catalog type whose data fails the type's data validator
\* gets exactly one negativeAcknowledge, no acknowledge and no handler
\* invocation, and its one error log is on the validation branch and carries
\* the offending field paths.
C5_InvalidDataNacked ==
    \A dl \in Delivered :
        (DecodesOk(dl) /\ InCatalog(dl) /\ ~DataValid(dl))
            => /\ dl.nacks = 1 /\ dl.acks = 0 /\ dl.handlerCalls = 0
               /\ Cardinality(ErrorLogs(dl)) = 1
               /\ \A j \in ErrorLogs(dl) :
                      /\ dl.log[j].branch = "invalid"
                      /\ dl.log[j].issues = {"id"}

C5_Witness ==
    \E dl \in Delivered :
        /\ DecodesOk(dl) /\ InCatalog(dl) /\ ~DataValid(dl)
        /\ dl.nacks = 1

\* C6: a handler that rejects while processing a valid message gets the
\* message exactly one negativeAcknowledge and no acknowledge.
C6_HandlerThrewNacked ==
    \A dl \in Delivered :
        dl.wasHandled = "threw"
            => (ValidRegistered(dl) /\ dl.nacks = 1 /\ dl.acks = 0)

C6_Witness ==
    \E dl \in Delivered : dl.wasHandled = "threw" /\ dl.handlerCalls = 1

\* C7: the callback of a message that decodes never rejects; an unknown
\* type, a validation failure or a handler failure has been turned into one
\* negativeAcknowledge and one error-level log, and the callback has
\* completed.
C7_FailuresDoNotEscape ==
    \A dl \in Delivered :
        DecodesOk(dl)
            => /\ dl.pc # "rejected"
               /\ dl.error.name \in {"Error", "TypeError", "ZodError",
                                     "HandlerError"}
                      => /\ dl.pc = "resolved"
                         /\ dl.nacks = 1
                         /\ Cardinality(ErrorLogs(dl)) = 1

C7_Witness ==
    /\ \E dl \in Delivered : dl.error.name = "Error" /\ dl.pc = "resolved"
    /\ \E dl \in Delivered : dl.error.name = "HandlerError"
                              /\ dl.pc = "resolved"

\* C8: a message that does not decode (its text is not JSON, or the JSON
\* lacks the envelope's fields) makes the callback reject, with no
\* acknowledge, no negativeAcknowledge, no handler invocation and no log.
C8_DecodeErrorPropagates ==
    \A dl \in Delivered :
        ~DecodesOk(dl)
            => /\ dl.pc = "rejected"
               /\ dl.error.name \in {"SyntaxError", "ZodError"}
               /\ dl.acks = 0 /\ dl.nacks = 0 /\ dl.handlerCalls = 0
               /\ dl.log = <<>>

C8_Witness ==
    /\ \E dl \in Delivered : ~dl.msg.body.parses /\ dl.pc = "rejected"
    /\ \E dl \in Delivered : dl.msg.body.parses /\ ~DecodesOk(dl)
                              /\ dl.pc = "rejected"

----------------------------------------------------------------------------
\* Properties of the lifecycle (SpecLifecycle)

\* C9: once a close() has taken the subscriber to Closed it is never
\* Subscribed again: the reference stays unset, and an initialize() called in
\* Closed opens no consumer and does not return true.
C9_NoReturnToSubscribed ==
    /\ closedOnce => subscriber = undefined
    /\ \A call \in Suspended :
           (call.op = "initialize" /\ call.from = "Closed")
               => call.consumer = undefined
    /\ (last.op = "initialize" /\ last.from = "Closed") => last.ret # "true"

\* C10: an initialize() whose subscribe succeeded stores the new, open
\* consumer and returns true; one whose subscribe failed returns false
\* without throwing, opens no consumer and leaves the reference as it was;
\* initialize() never ends by throwing.
C10_InitializeOutcome ==
    [][\A call \in Suspended :
          (call.op = "initialize" /\ CopiesIn(call, calls') < CopiesIn(call, calls))
              => IF call.pc = "subscribed"
                 THEN /\ last' = Completed(call, "returned", "true")
                      /\ subscriber' = call.consumer
                      /\ consumers'[subscriber'].open
                 ELSE \/ /\ Len(consumers') = Len(consumers) + 1
                         /\ consumers'[Len(consumers')].open
                         /\ BagIn([call EXCEPT !.pc = "subscribed",
                                               !.consumer = Len(consumers')],
                                  calls')
                         /\ subscriber' = subscriber
                         /\ last' = last
                      \/ /\ last' = Completed(call, "returned", "false")
                         /\ subscriber' = subscriber
                         /\ consumers' = consumers]_vars

\* A retry made in Uninitialized, after an initialize() that returned false,
\* has returned true and left the subscriber Subscribed.
C10_Witness ==
    /\ last.op = "initialize" /\ last.retry /\ last.from = "Uninitialized"
    /\ last.end = "returned" /\ last.ret = "true"
    /\ subscriber = last.consumer
    /\ SubscriberState = "Subscribed"

----------------------------------------------------------------------------
\* Properties of sequential lifecycle calls (SpecSequential)

\* C11: every close() made in Subscribed ends normally with the reference
\* cleared, and no consumer gets more than one Consumer.close().
C11_CloseClearsAndClosesOnce ==
    /\ (last.op = "close" /\ last.from = "Subscribed")
           => (last.end = "returned" /\ subscriber = undefined)
    /\ \A c \in DOMAIN consumers : consumers[c].closeCalls <= 1

\* C12: an initialize() made while a consumer is stored always calls
\* client.subscribe again.  When the subscribe resolves the call returns true
\* and the stored reference becomes the new consumer; when it rejects the
\* call returns false and the stored reference is the one held before.
C12_SecondInitializeResubscribes ==
    [][/\ (last' # last /\ last'.op = "initialize"
              /\ last'.from = "Subscribed")
             => \E call \in Suspended :
                   /\ call.op = "initialize" /\ call.from = "Subscribed"
                   /\ calls' = calls (-) SetToBag({call})
                   /\ subscriber # undefined
                   /\ \/ /\ call.pc = "subscribed"
                         /\ last' = Completed(call, "returned", "true")
                         /\ subscriber' = call.consumer
                         /\ call.consumer = Len(consumers)
                         /\ subscriber' # subscriber
                         /\ consumers' = consumers
                      \/ /\ call.pc = "subscribing"
                         /\ last' = Completed(call, "returned", "false")
                         /\ subscriber' = subscriber
                         /\ consumers' = consumers
       /\ (subscriber # undefined /\ calls = EmptyBag /\ calls' # calls)
             => \/ calls' = SetToBag({[op |-> "initialize",
                          pc |-> "subscribing", consumer |-> undefined,
                          from |-> "Subscribed", retry |-> initFailed]})
                \/ \E call \in BagToSet(calls') : call.op = "close"]_vars

\* The second initialize() has returned true: consumer 2 is stored and
\* consumer 1, stored before, is still open.
C12_Witness ==
    /\ last.op = "initialize" /\ last.from = "Subscribed"
    /\ last.end = "returned" /\ last.ret = "true"
    /\ subscriber = 2 /\ last.consumer = 2
    /\ consumers[1].open /\ consumers[1].closeCalls = 0

\* C19: one reference is kept, and it only ever moves to the consumer
\* opened last.  A step changes a consumer only if that consumer is the
\* stored one, so a consumer that was replaced by a later initialize()
\* without a close() in between is never closed.
C19_OnlyStoredConsumerClosed ==
    [][/\ subscriber' \in {undefined} \cup DOMAIN consumers'
       /\ (subscriber' # subscriber /\ subscriber' # undefined)
             => /\ subscriber' = Len(consumers)
                /\ \A c \in DOMAIN consumers : c # subscriber' => c < subscriber'
       /\ \A c \in DOMAIN consumers :
             consumers'[c] # consumers[c] => c = subscriber
       /\ \A c \in DOMAIN consumers :
             (c # subscriber /\ c < Len(consumers)) => consumers'[c] = consumers[c]]_vars

\* initialize() was called twice and then close(): close() has returned,
\* the reference is cleared, consumer 2 is closed and consumer 1, never
\* closed, is still open.
C19_Witness ==
    /\ last.op = "close" /\ last.end = "returned" /\ last.consumer = 2
    /\ subscriber = undefined
    /\ consumers[1].open /\ consumers[1].closeCalls = 0
    /\ ~consumers[2].open

----------------------------------------------------------------------------
\* Properties of overlapping lifecycle calls (SpecLifecycle), continued

\* C20: every Consumer.close() is called on the consumer stored at that
\* moment.  When it resolves, close() returns with the reference cleared;
\* when it rejects, close() throws and the reference, the consumers and the
\* lifecycle state are as before.  The reference is never cleared by any
\* other step.
C20_ClearedOnlyAfterCloseResolves ==
    [][/\ \A call \in Suspended :
             (call.pc = "closing"
                 /\ CopiesIn(call, calls') < CopiesIn(call, calls))
                 => \/ /\ last' = Completed(call, "returned", "void")
                       /\ subscriber' = undefined
                       /\ ~consumers'[call.consumer].open
                    \/ /\ last' = Completed(call, "threw", "none")
                       /\ subscriber' = subscriber
                       /\ consumers' = consumers
                       /\ closedOnce' = closedOnce
       /\ (subscriber # undefined /\ subscriber' = undefined)
             => \E call \in Suspended :
                   /\ call.pc = "closing"
                   /\ calls' = calls (-) SetToBag({call})
                   /\ last' = Completed(call, "returned", "void")
       /\ \A c \in DOMAIN consumers :
             consumers'[c].closeCalls # consumers[c].closeCalls
                 => /\ c = subscriber /\ subscriber' = subscriber
                    /\ consumers'[c].closeCalls = consumers[c].closeCalls + 1
                    /\ BagIn([op |-> "close", pc |-> "closing",
                              consumer |-> c, from |-> "Subscribed",
                              retry |-> FALSE], calls')]_vars

\* A close() has thrown and the consumer is still stored and open; another
\* close() has called Consumer.close() on it a second time and is waiting.
C20_Witness ==
    /\ last.op = "close" /\ last.end = "threw"
    /\ subscriber # undefined /\ subscriber = last.consumer
    /\ consumers[subscriber].open
    /\ consumers[subscriber].closeCalls = 2
    /\ \E call \in Suspended : call.pc = "closing" /\ call.consumer = subscriber

----------------------------------------------------------------------------
\* Properties of the dispatch of one message (SpecDispatch), continued

\* A decodable message of a catalog type with a registered handler and
\* valid data that arrives with no properties.
NoProperties(dl) ==
    /\ DecodesOk(dl) /\ InCatalog(dl) /\ DataValid(dl)
    /\ dl.msg.body.type \in DOMAIN handlers
    /\ getRawProperties(dl.msg) = {}

\* C13: a message of a registered type with no properties reaches the
\* handler, with empty properties, when the type's properties validator
\* requires no field; when the validator requires a field the message gets
\* exactly one negativeAcknowledge, no acknowledge and no handler call.
C13_EmptyProperties ==
    \A dl \in Delivered :
        NoProperties(dl) =>
            IF schema[dl.msg.body.type].properties.required = {}
            THEN /\ dl.handlerCalls = 1
                 /\ dl.args.id = dl.msg.body.id
                 /\ dl.args.properties = {}
                 /\ dl.error.name # "ZodError"
            ELSE /\ dl.handlerCalls = 0 /\ dl.nacks = 1 /\ dl.acks = 0
                 /\ dl.pc = "resolved"
                 /\ dl.error = [name |-> "ZodError",
                       issues |-> schema[dl.msg.body.type].properties.required]

\* Both cases have happened: type "a" (k optional) was handed to its handler
\* and type "b" (k required) was refused, each with no properties.
C13_Witness ==
    /\ \E dl \in Delivered :
          NoProperties(dl) /\ dl.msg.body.type = "a" /\ dl.handlerCalls = 1
    /\ \E dl \in Delivered :
          NoProperties(dl) /\ dl.msg.body.type = "b" /\ dl.nacks = 1

\* C15: the steps of one delivery happen in order and at most once.  Nothing
\* follows a failed decode; a data failure is the error reported whatever
\* the properties and the registry hold; a properties failure comes before
\* any handler call; the handler is called at most once and only for a
\* message that passed both validations; acknowledge is called at most once
\* and only after the handler resolved to true; while the handler is pending
\* no acknowledge and no negativeAcknowledge has been called.
C15_StepOrder ==
    \A dl \in Delivered :
        /\ dl.handlerCalls <= 1 /\ dl.acks <= 1 /\ dl.nacks <= 1
        /\ ~DecodesOk(dl) => (dl.log = <<>> /\ dl.handlerCalls = 0
                               /\ dl.acks = 0 /\ dl.nacks = 0)
        /\ (DecodesOk(dl) /\ InCatalog(dl) /\ ~DataValid(dl))
              => /\ dl.error = [name |-> "ZodError", issues |-> {"id"}]
                 /\ dl.handlerCalls = 0
        /\ (DecodesOk(dl) /\ InCatalog(dl) /\ DataValid(dl)
               /\ ~PropertiesValid(dl))
              => /\ dl.error = [name |-> "ZodError", issues |-> {"k"}]
                 /\ dl.handlerCalls = 0
        /\ dl.handlerCalls = 1 => ValidRegistered(dl)
        /\ dl.handlerCalls = 1 <=> dl.wasHandled # "none"
        /\ dl.acks = 1 => dl.wasHandled = "true"
        /\ dl.wasHandled = "pending"
              => (dl.pc = "awaitHandler" /\ dl.acks = 0 /\ dl.nacks = 0)

\* A message whose data and properties are both invalid was refused, and
\* another delivery is waiting for its handler.
C15_Witness ==
    /\ \E dl \in Delivered :
          /\ DecodesOk(dl) /\ InCatalog(dl)
          /\ ~DataValid(dl) /\ ~PropertiesValid(dl)
          /\ dl.nacks = 1
    /\ \E dl \in Delivered : dl.wasHandled = "pending"

\* C16: a valid message whose type has a catalog entry but no handler in the
\* registry is not turned into a negativeAcknowledge: the failure leaves the
\* callback instead of being absorbed by it.
C16_MissingHandlerIsFatal ==
    \A dl \in Delivered :
        (DecodesOk(dl) /\ InCatalog(dl) /\ DataValid(dl)
            /\ PropertiesValid(dl) /\ dl.msg.body.type \notin DOMAIN handlers)
            => (dl.nacks = 0 /\ dl.pc = "rejected")

\* What the callback of delivery dl does when no other callback exists:
\* its own message and consumer handle, taken through the steps its handler
\* and its acknowledge call have completed so far.
Isolated(dl) ==
    LET started == [onMessageStart(dl.msg, dl.consumer, schema, handlers)
                       EXCEPT !.entered = dl.entered]
        handled == afterHandler(started, IF dl.wasHandled = "threw"
                                         THEN "reject" ELSE dl.wasHandled)
    IN IF started.pc # "awaitHandler" \/ dl.wasHandled = "pending"
       THEN started
       ELSE IF handled.pc # "awaitAck" \/ dl.ackSettled = "none"
       THEN handled
       ELSE afterAcknowledge(handled, dl.ackSettled = "resolved")

RECURSIVE CallsMade(_, _, _, _)
\* The number of calls op(m) on consumer c made by the deliveries ds.
CallsMade(ds, op, c, m) ==
    IF ds = <<>> THEN 0
    ELSE LET dl == Head(ds)
             n == IF dl.consumer = c /\ dl.msg = m
                  THEN IF op = "acknowledge" THEN dl.acks ELSE dl.nacks
                  ELSE 0
         IN n + CallsMade(Tail(ds), op, c, m)

\* The calls the broker received are those of the deliveries, each on the
\* handle and for the message its callback was invoked with, and every
\* delivery is where it would be with no other callback in flight.
NoInterference(ds, b) ==
    /\ \A d \in DOMAIN ds : ds[d] = Isolated(ds[d])
    /\ \A call \in BagToSet(b) \cup
                   {[op |-> op, consumer |-> ds[d].consumer, msg |-> ds[d].msg,
                     open |-> TRUE] :
                        op \in {"acknowledge", "negativeAcknowledge"},
                        d \in DOMAIN ds} :
          CopiesIn([call EXCEPT !.open = TRUE], b)
              + CopiesIn([call EXCEPT !.open = FALSE], b)
          = CallsMade(ds, call.op, call.consumer, call.msg)

\* C17: with several callbacks in flight, after every step each delivery is
\* where its own message and its own handler and acknowledge outcomes put
\* it, the broker has received acknowledge and negativeAcknowledge only for
\* the messages the callbacks were invoked with, and the step has left the
\* schema catalog, the handler registry and the stored consumer unchanged.
C17_CallbacksDoNotInterfere ==
    [][/\ NoInterference(deliveries', broker')
       /\ schema' = schema /\ handlers' = handlers
       /\ subscriber' = subscriber]_vars

\* Two callbacks for different messages overlap: the second has been
\* acknowledged while the first, entered earlier, still waits for its
\* handler.
C17_Witness ==
    /\ Len(deliveries) >= 2
    /\ deliveries[1].msg # deliveries[2].msg
    /\ deliveries[1].pc = "awaitHandler"
    /\ deliveries[2].acks = 1 /\ deliveries[2].pc = "resolved"
    /\ BagCardinality(broker) = 1

----------------------------------------------------------------------------
\* Properties of the listener beside the lifecycle calls (SpecOverlap)

\* C18: whatever the lifecycle calls are doing, every delivery is where its
\* own message and outcomes put it, its acknowledge and negativeAcknowledge
\* go to the handle the callback was given, a step of a callback changes
\* nothing of the lifecycle and a step of a lifecycle call changes nothing
\* of a delivery.
C18_DispatchIgnoresLifecycle ==
    [][/\ NoInterference(deliveries', broker')
       /\ (deliveries' # deliveries \/ broker' # broker)
             => UNCHANGED <<subscriber, consumers, calls, last, closedOnce,
                            initFailed>>
       /\ \A call \in BagToSet(broker') :
             CopiesIn(call, broker') > CopiesIn(call, broker)
                 => \E d \in DOMAIN deliveries' :
                       /\ deliveries'[d].consumer = call.consumer
                       /\ deliveries'[d].msg = call.msg
                       /\ call.open = IsOpen(call.consumer)]_vars

\* A message was delivered while initialize() had not yet stored the
\* consumer, its handler was called, and its acknowledge was made after
\* close() had closed that consumer and cleared the reference.
C18_Witness ==
    \E dl \in Delivered :
        /\ dl.entered /\ dl.consumer = 1
        /\ dl.handlerCalls = 1 /\ dl.acks = 1
        /\ BagIn([op |-> "acknowledge", consumer |-> dl.consumer,
                  msg |-> dl.msg, open |-> FALSE], broker)
        /\ subscriber = undefined /\ closedOnce

----------------------------------------------------------------------------
\* Properties of the normalisation of message properties (SpecProperties)

\* C14: normalising an array whose elements are the [key, value] pairs gives
\* the mapping a plain map with the same pairs gives.
C14_ListOfPairsRoundTrip ==
    norm.form = "list" => norm.raw = ToMap(norm.pairs)

====
